---- MODULE Spec2Model ----
(***************************************************************************)
(* Model of LastFMHandler::get_user_tracks (src/src/lastfm_handler.rs).    *)
(*                                                                         *)
(* One call of get_user_tracks is one behaviour.  The call is a coroutine  *)
(* that suspends at every .await; each action below runs the code from one *)
(* suspension point to the next.  The remote service is the environment:   *)
(* a fetch that has been launched stays in flight until the action         *)
(* Complete delivers its response or its error.                            *)
(*                                                                         *)
(* A Vec of tracks is kept run-length encoded: a sequence of runs          *)
(* <<lo, hi>>, each standing for the tracks at remote positions lo..hi in  *)
(* ascending order.  The vector <<1,4>>, <<9,9>> holds tracks 1,2,3,4,9.   *)
(***************************************************************************)
EXTENDS Integers, Sequences, FiniteSets

(* Program constants, lines 9-12. *)
API_MAX_LIMIT == 1000
CHUNK_MULTIPLIER == 5
CHUNK_SIZE == API_MAX_LIMIT * CHUNK_MULTIPLIER

(* Bound of the inputs: the largest multiple of half a chunk tried as a    *)
(* requested limit or as the remote total.                                 *)
MaxHalfChunks == 2

(* The values tried for the requested limit and for the remote total: the  *)
(* edges of the single-page path, the spec's scenarios (1, 50, 12000) and  *)
(* the values around the multiples of half a chunk.  All are far below     *)
(* 2^32, so no u32 arithmetic of the code wraps on them.                   *)
Values ==
    {0, 1, 50, API_MAX_LIMIT, API_MAX_LIMIT + 1, 12000}
        \cup { k * (CHUNK_SIZE \div 2) + d : k \in 1..MaxHalfChunks, d \in {0, 1} }

(* Option<u32>: <<>> is None, <<v>> is Some(v). *)
LimitInputs == {<<>>} \cup { <<v>> : v \in Values }

VARIABLES
    limit,            \* the argument limit: Option<u32>
    remoteTotal,      \* number of tracks the remote holds for the user
    pc,               \* suspension point of the call
    total_tracks,     \* line 61
    actual_limit,     \* line 64
    needed_chunks,    \* line 67
    i,                \* loop counter of line 71
    all_tracks,       \* line 52
    all_fetches,      \* the futures handed to the pending await (ids of requests)
    issued,           \* every request sent so far, in the order sent
    responses,        \* per request: still in flight, its response, or its error
    completionOrder,  \* requests of the pending await in the order they completed
    result,           \* the value returned by get_user_tracks
    method,           \* the argument method
    base_options,     \* self.base_options, line 17
    sent,             \* per request: the query parameters put in its URL
    servedTotal       \* number of tracks the remote holds when it serves the pages

vars == <<limit, remoteTotal, pc, total_tracks, actual_limit, needed_chunks, i,
          all_tracks, all_fetches, issued, responses, completionOrder, result,
          method, base_options, sent, servedTotal>>

Min(a, b) == IF a < b THEN a ELSE b

(* Option::unwrap_or, line 54. *)
UnwrapOr(opt, default) == IF opt = <<>> THEN default ELSE opt[1]

----
(* Vec<Track> in run-length encoding. *)

RECURSIVE TLen(_)
TLen(tracks) ==
    IF tracks = <<>> THEN 0
    ELSE (tracks[1][2] - tracks[1][1] + 1) + TLen(Tail(tracks))

(* Vec::extend, lines 100, 129, 141. *)
Extend(tracks, more) == tracks \o more

(* Iterator::take(n).collect(), line 145. *)
RECURSIVE Take(_, _)
Take(tracks, n) ==
    IF n = 0 \/ tracks = <<>> THEN <<>>
    ELSE LET lo == tracks[1][1]
             hi == tracks[1][2]
         IN  IF hi - lo + 1 <= n
             THEN <<tracks[1]>> \o Take(Tail(tracks), n - (hi - lo + 1))
             ELSE << <<lo, lo + n - 1>> >>

----
(* Requests and responses. *)

NoPage == 0    \* the request carries no "page" parameter (the remote serves page 1)

Request(page, lim, batch) == [page |-> page, limit |-> lim, batch |-> batch]

Pending == [kind |-> "Pending"]
OkResponse(total, tracks) == [kind |-> "Ok", total |-> total, tracks |-> tracks]
ErrResponse(r) == [kind |-> "Err", req |-> r]

(* What the remote answers to a request of page p and page size s: the     *)
(* tracks at positions (p-1)*s+1 .. min(p*s, total).                       *)
RemotePage(req, total) ==
    LET p  == IF req.page = NoPage THEN 1 ELSE req.page
        lo == (p - 1) * req.limit + 1
        hi == Min(p * req.limit, total)
    IN  IF lo <= hi THEN << <<lo, hi>> >> ELSE <<>>

(* The number of tracks the remote holds when it serves a request: the     *)
(* probe comes first, and the tracks of the user may have changed by the   *)
(* time the pages are served.                                              *)
RemoteTotalFor(req) == IF req.batch = 0 THEN remoteTotal ELSE servedTotal

----
(* Query parameters: QueryParams is a HashMap<String, String>, here a      *)
(* function from keys to values.  A number is written in decimal, as the   *)
(* sequence of its digits.                                                 *)

(* ToString::to_string of a u32, lines 24, 80-81, 114-115, 135. *)
RECURSIVE ToString(_)
ToString(n) == IF n < 10 THEN <<n>> ELSE Append(ToString(n \div 10), n % 10)

(* HashMap::new, lines 22, 57, 134. *)
EmptyParams == [ k \in {} |-> <<>> ]

(* HashMap::insert: the value of an existing key is replaced. *)
Insert(map, key, value) ==
    [ k \in DOMAIN map \cup {key} |-> IF k = key THEN value ELSE map[k] ]

(* HashMap::extend, line 157: the entries of other win. *)
ExtendParams(map, other) ==
    [ k \in DOMAIN map \cup DOMAIN other |->
        IF k \in DOMAIN other THEN other[k] ELSE map[k] ]

(* The two callers of get_user_tracks, lines 35 and 43. *)
Methods == {"user.getlovedtracks", "user.getrecenttracks"}

(* LastFMHandler::new, lines 22-26, for one user and one API key. *)
NewBaseOptions ==
    Insert(Insert(Insert(Insert(EmptyParams,
        "api_key", "LAST_FM_API_KEY"),
        "limit", ToString(API_MAX_LIMIT)),
        "format", "json"),
        "user", "username")

(* Lines 84-86 and 117-119: a clone of base_options with limit and page. *)
PageParams(base, req) ==
    Insert(Insert(base, "limit", ToString(req.limit)), "page", ToString(req.page))

(* Lines 57-58 and 134-137: a new map with limit alone. *)
LimitParams(req) == Insert(EmptyParams, "limit", ToString(req.limit))

(* Lines 155-157: what fetch puts in the URL. *)
FetchParams(base, meth, params) ==
    ExtendParams(Insert(base, "method", meth), params)

----
(* The plan: which pages the chunk loop and the remainder ask for. *)

(* Line 66: the chunked path is taken above the page ceiling only. *)
UsesChunksOrEqual(actual) == actual >= API_MAX_LIMIT
UsesChunks(actual) == actual > API_MAX_LIMIT

(* Line 67: integer division; the cast to f32 and floor() change nothing   *)
(* on a quotient below 2^24.                                               *)
NeededChunksRoundUp(actual) == (actual + CHUNK_SIZE - 1) \div CHUNK_SIZE
NeededChunks(actual) == actual \div CHUNK_SIZE

(* Line 109: ceil(remainder / 1000) in f32; remainder < 5000 and a         *)
(* remainder that is no multiple of 1000 is at least 0.001 away from one,  *)
(* far more than f32 rounding, so the result is the exact ceiling.         *)
NeededCallsFloor(remainder) == remainder \div API_MAX_LIMIT
NeededCallsExtra(remainder) == remainder \div API_MAX_LIMIT + 1
NeededCalls(remainder) == (remainder + API_MAX_LIMIT - 1) \div API_MAX_LIMIT

(* Line 79, with ii the chunk and j in 0..CHUNK_MULTIPLIER-1. *)
ChunkOffsetFromZero(ii, j) == ii * CHUNK_MULTIPLIER + j
ChunkOffset(ii, j) == ii * CHUNK_MULTIPLIER + (j + 1)

(* Line 115, with k in 0..needed_calls-1. *)
RemainderOffset(chunks, k) == CHUNK_MULTIPLIER * chunks + k + 1

(* Lines 57-58: the probe asks for one track and names no page. *)
ProbeRequestFullPage == Request(NoPage, API_MAX_LIMIT, 0)
ProbeRequest == Request(NoPage, 1, 0)

(* Lines 134-137: the single fetch asks for actual_limit tracks, no page. *)
SingleRequestBaseLimit(actual) == Request(NoPage, API_MAX_LIMIT, 1)
SingleRequest(actual) == Request(NoPage, actual, 1)

(* Lines 76-91: the fetches of chunk ii, in the order pushed. *)
ChunkRequests(ii) ==
    [ j \in 1..CHUNK_MULTIPLIER |->
        Request(ChunkOffset(ii, j - 1), API_MAX_LIMIT, ii + 1) ]

(* Lines 113-123: the fetches of the remainder, in the order pushed. *)
RemainderRequests(chunks, calls) ==
    [ k \in 1..calls |->
        Request(RemainderOffset(chunks, k - 1), API_MAX_LIMIT, chunks + 1) ]

----
(* futures::future::join_all, lines 94 and 125. *)

InFlight == { r \in 1..Len(issued) : responses[r].kind = "Pending" }

(* join_all resolves once every future handed to it has resolved. *)
JoinReadyTry(fetches) ==
    \/ \A k \in 1..Len(fetches) : responses[fetches[k]].kind # "Pending"
    \/ \E k \in 1..Len(fetches) : responses[fetches[k]].kind = "Err"
JoinReadyAny(fetches) ==
    \/ fetches = <<>>
    \/ \E k \in 1..Len(fetches) : responses[fetches[k]].kind # "Pending"
JoinReadyAllOk(fetches) ==
    \A k \in 1..Len(fetches) : responses[fetches[k]].kind = "Ok"
JoinReady(fetches) ==
    \A k \in 1..Len(fetches) : responses[fetches[k]].kind # "Pending"

(* join_all yields the outputs in the order of the futures it was given. *)
JoinAllByCompletion(fetches) ==
    [ k \in 1..Len(completionOrder) |-> responses[completionOrder[k]] ]
JoinAll(fetches) ==
    [ k \in 1..Len(fetches) |-> responses[fetches[k]] ]

(* Lines 97-103 and 127-132: extend all_tracks with each result in turn,   *)
(* return at the first Err.  err is <<>> when the loop ran to its end and  *)
(* <<e>> when it returned e.  (join_all never yields an unresolved slot;   *)
(* such a slot would add nothing.)                                         *)
RECURSIVE ProcessFrom(_, _, _)
ProcessFrom(tracks, results, k) ==
    IF k > Len(results) THEN [err |-> <<>>, tracks |-> tracks]
    ELSE CASE results[k].kind = "Ok" ->
                ProcessFrom(Extend(tracks, results[k].tracks), results, k + 1)
           [] results[k].kind = "Err" ->
                [err |-> <<results[k]>>, tracks |-> tracks]
           [] OTHER -> ProcessFrom(tracks, results, k + 1)

RECURSIVE SkipErrorsFrom(_, _, _)
SkipErrorsFrom(tracks, results, k) ==
    IF k > Len(results) THEN [err |-> <<>>, tracks |-> tracks]
    ELSE IF results[k].kind = "Ok"
         THEN SkipErrorsFrom(Extend(tracks, results[k].tracks), results, k + 1)
         ELSE SkipErrorsFrom(tracks, results, k + 1)

Reverse(s) == [ k \in 1..Len(s) |-> s[Len(s) + 1 - k] ]

ProcessResultsSkipErrors(tracks, results) == SkipErrorsFrom(tracks, results, 1)
ProcessResultsBackwards(tracks, results) == ProcessFrom(tracks, Reverse(results), 1)
ProcessResults(tracks, results) == ProcessFrom(tracks, results, 1)

----
(* Steps shared by the actions. *)

(* Polling the fetches for the first time sends their requests, in order. *)
(* Each fetch builds its URL from its own copy of base_options.            *)
SentParams(base, req) ==
    FetchParams(base, method,
                IF req.page = NoPage THEN LimitParams(req) ELSE PageParams(base, req))

(* A handler whose fetches write limit and page into base_options itself. *)
IssueInPlace(reqs) ==
    LET written == IF reqs[Len(reqs)].page = NoPage
                   THEN ExtendParams(base_options, LimitParams(reqs[Len(reqs)]))
                   ELSE PageParams(base_options, reqs[Len(reqs)])
    IN  /\ issued' = issued \o reqs
        /\ responses' = responses \o [ k \in 1..Len(reqs) |-> Pending ]
        /\ all_fetches' = [ k \in 1..Len(reqs) |-> Len(issued) + k ]
        /\ completionOrder' = <<>>
        /\ sent' = sent \o [ k \in 1..Len(reqs) |-> Insert(written, "method", method) ]
        /\ base_options' = written

Issue(reqs) ==
    /\ issued' = issued \o reqs
    /\ responses' = responses \o [ k \in 1..Len(reqs) |-> Pending ]
    /\ all_fetches' = [ k \in 1..Len(reqs) |-> Len(issued) + k ]
    /\ completionOrder' = <<>>
    /\ sent' = sent \o [ k \in 1..Len(reqs) |-> SentParams(base_options, reqs[k]) ]
    /\ base_options' = base_options

(* A call that answers a failed probe by probing once more. *)
ReturnErrRetryProbe(e, tracks) ==
    IF e.req = 1
    THEN /\ pc' = "probe"
         /\ result' = result
         /\ all_tracks' = tracks
         /\ Issue(<<ProbeRequest>>)
    ELSE /\ pc' = "done"
         /\ result' = [kind |-> "Err", req |-> e.req]
         /\ all_tracks' = tracks
         /\ UNCHANGED <<issued, responses, all_fetches, completionOrder, sent, base_options>>

(* return Err(e): lines 60, 101, 130, 139. *)
ReturnErr(e, tracks) ==
    /\ pc' = "done"
    /\ result' = [kind |-> "Err", req |-> e.req]
    /\ all_tracks' = tracks
    /\ UNCHANGED <<issued, responses, all_fetches, completionOrder, sent, base_options>>

(* Returns without line 145. *)
ReturnOkNoTruncate(tracks, actual) ==
    /\ pc' = "done"
    /\ result' = [kind |-> "Ok", tracks |-> tracks]
    /\ all_tracks' = tracks
    /\ UNCHANGED <<issued, responses, all_fetches, completionOrder, sent, base_options>>

(* Line 145 with final_limit in the place of actual_limit. *)
ReturnOkTakeRequested(tracks, actual) ==
    /\ pc' = "done"
    /\ result' = [kind |-> "Ok", tracks |-> Take(tracks, UnwrapOr(limit, API_MAX_LIMIT))]
    /\ all_tracks' = tracks
    /\ UNCHANGED <<issued, responses, all_fetches, completionOrder, sent, base_options>>

(* Lines 144-147. *)
ReturnOk(tracks, actual) ==
    /\ pc' = "done"
    /\ result' = [kind |-> "Ok", tracks |-> Take(tracks, actual)]
    /\ all_tracks' = tracks
    /\ UNCHANGED <<issued, responses, all_fetches, completionOrder, sent, base_options>>

(* Lines 106-125.  With needed_calls = 0 join_all is given no future and   *)
(* resolves at once: the loop of lines 127-132 runs over nothing and the   *)
(* call goes on to line 145 without suspending.                            *)
EnterRemainder(tracks, actual, chunks) ==
    LET remainder    == actual % CHUNK_SIZE
        needed_calls == NeededCalls(remainder)
    IN  IF needed_calls = 0
        THEN ReturnOk(tracks, actual)
        ELSE /\ pc' = "remainder"
             /\ all_tracks' = tracks
             /\ Issue(RemainderRequests(chunks, needed_calls))
             /\ result' = result

(* Line 71: iteration ii of the chunk loop, or the code after the loop. *)
EnterLoop(ii, tracks, actual, chunks) ==
    /\ i' = ii
    /\ IF ii < chunks
       THEN /\ pc' = "chunk"
            /\ all_tracks' = tracks
            /\ Issue(ChunkRequests(ii))
            /\ result' = result
       ELSE EnterRemainder(tracks, actual, chunks)

----
(* The actions. *)

Init ==
    /\ limit \in LimitInputs
    /\ remoteTotal \in Values
    /\ pc = "start"
    /\ total_tracks = 0
    /\ actual_limit = 0
    /\ needed_chunks = 0
    /\ i = 0
    /\ all_tracks = <<>>
    /\ all_fetches = <<>>
    /\ issued = <<>>
    /\ responses = <<>>
    /\ completionOrder = <<>>
    /\ result = [kind |-> "None"]
    /\ method \in Methods
    /\ base_options = NewBaseOptions
    /\ sent = <<>>
    /\ servedTotal = remoteTotal

(* Lines 52-60: the call runs up to the await of the probe. *)
Call ==
    /\ pc = "start"
    /\ pc' = "probe"
    /\ Issue(<<ProbeRequest>>)
    /\ UNCHANGED <<limit, remoteTotal, total_tracks, actual_limit, needed_chunks,
                   i, all_tracks, result, method, servedTotal>>

(* Lines 163-167: a fetch in flight ends, with the decoded response or     *)
(* with an error (transport or decoding).                                  *)
Complete(r, ok) ==
    /\ pc # "done"
    /\ r \in InFlight
    /\ responses' = [responses EXCEPT ![r] =
                        IF ok THEN OkResponse(RemoteTotalFor(issued[r]),
                                              RemotePage(issued[r], RemoteTotalFor(issued[r])))
                              ELSE ErrResponse(r)]
    /\ completionOrder' = Append(completionOrder, r)
    /\ UNCHANGED <<limit, remoteTotal, pc, total_tracks, actual_limit, needed_chunks,
                   i, all_tracks, all_fetches, issued, result,
                   method, base_options, sent, servedTotal>>

(* Lines 60-94, 106-125 or 134-139: the probe has resolved; the call runs  *)
(* on to its next await.                                                   *)
ProbeResume ==
    /\ pc = "probe"
    /\ JoinReady(all_fetches)
    /\ LET initial_response == responses[all_fetches[1]]
       IN  IF initial_response.kind = "Err"
           THEN /\ ReturnErr(initial_response, all_tracks)
                /\ UNCHANGED <<total_tracks, actual_limit, needed_chunks, i>>
           ELSE LET total  == initial_response.total
                    actual == Min(UnwrapOr(limit, API_MAX_LIMIT), total)
                IN  /\ total_tracks' = total
                    /\ actual_limit' = actual
                    /\ IF UsesChunks(actual)
                       THEN /\ needed_chunks' = NeededChunks(actual)
                            /\ EnterLoop(0, all_tracks, actual, NeededChunks(actual))
                       ELSE /\ pc' = "single"
                            /\ Issue(<<SingleRequest(actual)>>)
                            /\ UNCHANGED <<needed_chunks, i, all_tracks, result>>
    /\ UNCHANGED <<limit, remoteTotal, method, servedTotal>>

(* Lines 94-104, then the next iteration or lines 106-125. *)
ChunkJoin ==
    /\ pc = "chunk"
    /\ JoinReady(all_fetches)
    /\ LET chunk_results == JoinAll(all_fetches)
           processed     == ProcessResults(all_tracks, chunk_results)
       IN  IF processed.err # <<>>
           THEN /\ ReturnErr(processed.err[1], processed.tracks)
                /\ i' = i
           ELSE EnterLoop(i + 1, processed.tracks, actual_limit, needed_chunks)
    /\ UNCHANGED <<limit, remoteTotal, total_tracks, actual_limit, needed_chunks,
                   method, servedTotal>>

(* Lines 125-132, then 144-147. *)
RemainderJoin ==
    /\ pc = "remainder"
    /\ JoinReady(all_fetches)
    /\ LET chunk_results == JoinAll(all_fetches)
           processed     == ProcessResults(all_tracks, chunk_results)
       IN  IF processed.err # <<>>
           THEN ReturnErr(processed.err[1], processed.tracks)
           ELSE ReturnOk(processed.tracks, actual_limit)
    /\ UNCHANGED <<limit, remoteTotal, total_tracks, actual_limit, needed_chunks, i,
                   method, servedTotal>>

(* Lines 139-147. *)
SingleResume ==
    /\ pc = "single"
    /\ JoinReady(all_fetches)
    /\ LET response == responses[all_fetches[1]]
       IN  IF response.kind = "Err"
           THEN ReturnErr(response, all_tracks)
           ELSE ReturnOk(Extend(all_tracks, response.tracks), actual_limit)
    /\ UNCHANGED <<limit, remoteTotal, total_tracks, actual_limit, needed_chunks, i,
                   method, servedTotal>>

Next ==
    \/ Call
    \/ \E r \in 1..Len(issued), ok \in BOOLEAN : Complete(r, ok)
    \/ ProbeResume
    \/ ChunkJoin
    \/ RemainderJoin
    \/ SingleResume

Spec == Init /\ [][Next]_vars

(* The same call against a remote whose tracks change between the probe    *)
(* and the page fetches, for limits and totals of at most one chunk.       *)
DriftValues == { v \in Values : v <= CHUNK_SIZE }

InitDrift ==
    /\ limit \in {<<>>} \cup { <<v>> : v \in DriftValues }
    /\ remoteTotal \in DriftValues
    /\ servedTotal \in Values
    /\ pc = "start"
    /\ total_tracks = 0
    /\ actual_limit = 0
    /\ needed_chunks = 0
    /\ i = 0
    /\ all_tracks = <<>>
    /\ all_fetches = <<>>
    /\ issued = <<>>
    /\ responses = <<>>
    /\ completionOrder = <<>>
    /\ result = [kind |-> "None"]
    /\ method \in Methods
    /\ base_options = NewBaseOptions
    /\ sent = <<>>

SpecDrift == InitDrift /\ [][Next]_vars

(* The call under the hypothesis that every fetch issued completes, on an  *)
(* executor that polls the call whenever it can make progress.             *)
Fairness ==
    /\ WF_vars(Call)
    /\ WF_vars(\E r \in 1..Len(issued), ok \in BOOLEAN : Complete(r, ok))
    /\ WF_vars(ProbeResume)
    /\ WF_vars(ChunkJoin)
    /\ WF_vars(RemainderJoin)
    /\ WF_vars(SingleResume)

LiveSpec == Spec /\ Fairness

----
(* Vocabulary of the properties. *)

(* min(requested_limit, total_available), from the inputs of the call. *)
Effective == Min(UnwrapOr(limit, API_MAX_LIMIT), remoteTotal)

(* The probe is request 1; the page requests are requests 2, 3, ... *)
PageIds == 2..Len(issued)
ProbeOk == Len(issued) >= 1 /\ responses[1].kind = "Ok"
PastProbe == ProbeOk /\ pc \notin {"start", "probe"}
Returned == pc = "done"
Failed(r) == responses[r].kind = "Err"

(* The tracks answered to requests from..Len(issued), in request order. *)
RECURSIVE FetchedFrom(_)
FetchedFrom(from) ==
    IF from > Len(issued) THEN <<>>
    ELSE (IF responses[from].kind = "Ok" THEN responses[from].tracks ELSE <<>>)
            \o FetchedFrom(from + 1)

(* The tracks are those at positions 1, 2, 3, ... of the remote, in order. *)
FromFirstInOrder(tracks) ==
    /\ tracks # <<>> => tracks[1][1] = 1
    /\ \A k \in 1..Len(tracks) - 1 : tracks[k + 1][1] = tracks[k][2] + 1

(* The await the call returned from saw a fetch complete before a fetch    *)
(* that was requested earlier.                                             *)
CompletedOutOfOrder ==
    \E a, b \in 1..Len(completionOrder) :
        a < b /\ completionOrder[a] > completionOrder[b]

(* Of the fetches of the last await, the failure that completed first. *)
FailedInOrder == { k \in 1..Len(completionOrder) : Failed(completionOrder[k]) }
FirstFailureInTime ==
    completionOrder[CHOOSE k \in FailedInOrder : \A m \in FailedInOrder : k <= m]

(* Of the fetches of the last await, the failure requested first. *)
FailedFetches == { r \in { all_fetches[k] : k \in 1..Len(all_fetches) } : Failed(r) }
FirstFailureInRequestOrder ==
    CHOOSE r \in FailedFetches : \A q \in FailedFetches : r <= q

----
(* C1: when the probe and every page fetch succeed, get_user_tracks        *)
(* returns exactly min(requested_limit, total_available) tracks.           *)
C1_ReturnsEffectiveLimit ==
    (Returned /\ \A r \in 1..Len(issued) : responses[r].kind = "Ok")
        => /\ result.kind = "Ok"
           /\ TLen(result.tracks) = Effective

(* The chunked path fetched more than asked and the surplus was cut. *)
C1_Witness ==
    /\ Returned
    /\ result.kind = "Ok"
    /\ Effective > API_MAX_LIMIT
    /\ TLen(all_tracks) > TLen(result.tracks)
    /\ TLen(result.tracks) = Effective

(* C2: on success the output lists the tracks in request order (by batch,  *)
(* then by page index), whatever the order in which the fetches of a batch *)
(* completed.                                                              *)
C2_OutputInRequestOrder ==
    (Returned /\ result.kind = "Ok")
        => /\ result.tracks = Take(FetchedFrom(2), Effective)
           /\ FromFirstInOrder(result.tracks)

(* A success whose last batch saw a later page complete before an earlier. *)
C2_Witness ==
    /\ Returned
    /\ result.kind = "Ok"
    /\ CompletedOutOfOrder
    /\ Len(result.tracks) >= 2

(* C3: if any page fetch failed, get_user_tracks returns an error and      *)
(* never a list, full or truncated.                                        *)
C3_AllOrNothing ==
    (\E r \in PageIds : Failed(r))
        => /\ result.kind # "Ok"
           /\ Returned => (result.kind = "Err" /\ "tracks" \notin DOMAIN result)

(* A failure after tracks had already been collected: they are dropped. *)
C3_Witness ==
    /\ Returned
    /\ result.kind = "Err"
    /\ all_tracks # <<>>
    /\ \E r \in PageIds : Failed(r)

(* C4: above the page ceiling, the page indices of the page requests, in   *)
(* issue order across all batches, are 1, 2, 3, ..., n.                    *)
C4_PageIndicesConsecutive ==
    (PastProbe /\ Effective > API_MAX_LIMIT)
        => \A r \in PageIds : issued[r].page = r - 1

(* Twelve pages over two full batches and the remainder. *)
C4_Witness ==
    /\ Returned
    /\ result.kind = "Ok"
    /\ Effective = 12000
    /\ Len(issued) = 13
    /\ issued[13].page = 12 /\ issued[13].batch = 3

(* C5: with an effective limit of at most the page ceiling, exactly one    *)
(* page request follows the probe, its page size is the effective limit,   *)
(* and the chunked path is never entered; total 1 with limit 50 gives one  *)
(* request of size 1 and one track.                                        *)
C5_SinglePagePath ==
    /\ (PastProbe /\ Effective <= API_MAX_LIMIT)
          => /\ Len(issued) = 2
             /\ issued[2].limit = Effective
             /\ issued[2].page = NoPage
             /\ pc \in {"single", "done"}
             /\ Cardinality(InFlight) <= 1
    /\ (Returned /\ result.kind = "Ok" /\ limit = <<50>> /\ remoteTotal = 1)
          => /\ issued[2].limit = 1
             /\ TLen(result.tracks) = 1

(* Scenario A has run to its end. *)
C5_Witness ==
    /\ Returned
    /\ result.kind = "Ok"
    /\ limit = <<50>> /\ remoteTotal = 1
    /\ Len(issued) = 2 /\ issued[2].limit = 1
    /\ TLen(result.tracks) = 1

C7_BatchesDoNotOverlap ==
    /\ \A q, r \in 1..Len(issued) :
          issued[q].batch < issued[r].batch => q \notin InFlight
    /\ \A q, r \in InFlight : issued[q].batch = issued[r].batch

(* The remainder batch is in flight after two full batches. *)
C7_Witness ==
    /\ \E r \in InFlight : issued[r].batch = 3
    /\ Cardinality(InFlight) >= 2
    /\ \E q \in 1..Len(issued) : issued[q].batch = 2

(* C8, as stated: the error returned for a failed batch is the failure     *)
(* that completed first in time.                                           *)
C8_FirstFailureByCompletion ==
    (Returned /\ result.kind = "Err" /\ result.req \in PageIds)
        => result.req = FirstFailureInTime

(* C8, amended: the error returned for a failed batch is the failure of    *)
(* the failed fetch that comes first in request order (lowest page index), *)
(* whatever the completion order; the tracks of the fetches that succeeded *)
(* in that batch are not returned.                                         *)
C8_FirstFailureByRequest ==
    (Returned /\ result.kind = "Err" /\ result.req \in PageIds)
        => /\ result.req = FirstFailureInRequestOrder
           /\ "tracks" \notin DOMAIN result

(* Two failures in one batch, the later request failing first, beside a    *)
(* fetch that succeeded.                                                   *)
C8_Witness ==
    /\ Returned
    /\ result.kind = "Err"
    /\ result.req \in PageIds
    /\ FirstFailureInTime # result.req
    /\ \E k \in 1..Len(all_fetches) : responses[all_fetches[k]].kind = "Ok"

(* C9: when get_user_tracks returns, no fetch it launched is in flight:    *)
(* every one has completed, also those of a batch in which a fetch failed. *)
C9_NothingInFlightAtReturn ==
    Returned => /\ InFlight = {}
                /\ \A r \in 1..Len(issued) : responses[r].kind \in {"Ok", "Err"}

(* A batch in which fetches completed after the first failure. *)
C9_Witness ==
    /\ Returned
    /\ result.kind = "Err"
    /\ Len(completionOrder) = CHUNK_MULTIPLIER
    /\ Failed(completionOrder[1])
    /\ \A r \in 1..Len(issued) : responses[r].kind # "Pending"

(* C10: after a batch has failed no fetch of a later batch is issued and   *)
(* no page is asked for again.                                             *)
C10_NothingIssuedAfterFailure ==
    /\ \A q, r \in 1..Len(issued) : Failed(r) => issued[q].batch <= issued[r].batch
    /\ \A q, r \in PageIds : q # r => issued[q].page # issued[r].page

(* The first of three planned batches failed: only its five fetches and    *)
(* the probe were ever issued.                                             *)
C10_Witness ==
    /\ Returned
    /\ result.kind = "Err"
    /\ Effective = 12000
    /\ issued[result.req].batch = 1
    /\ Len(issued) = 1 + CHUNK_MULTIPLIER

----
(* More vocabulary. *)

CeilDiv(a, b) == (a + b - 1) \div b

(* The requests of batch b, in issue order. *)
BatchIds(b) == { r \in 1..Len(issued) : issued[r].batch = b }

RECURSIVE SumLimits(_)
SumLimits(ids) ==
    IF ids = {} THEN 0
    ELSE LET r == CHOOSE x \in ids : TRUE
         IN  issued[r].limit + SumLimits(ids \ {r})

AllSucceeded == \A r \in 1..Len(issued) : responses[r].kind = "Ok"

(* C11: if the probe fails, get_user_tracks returns that error, issues no  *)
(* page fetch afterwards and does not probe again.                         *)
C11_ProbeFailureEndsCall ==
    (Len(issued) >= 1 /\ Failed(1))
        => /\ Len(issued) = 1
           /\ pc \in {"probe", "done"}
           /\ Returned => result = [kind |-> "Err", req |-> 1]

(* The call returned the probe's error. *)
C11_Witness ==
    /\ Returned
    /\ Failed(1)
    /\ result = [kind |-> "Err", req |-> 1]
    /\ Effective > API_MAX_LIMIT

C14_BatchShape ==
    /\ (PastProbe /\ Effective > API_MAX_LIMIT)
          => /\ \A r \in PageIds :
                   /\ issued[r].limit = API_MAX_LIMIT
                   /\ issued[r].batch \in 1..(Effective \div CHUNK_SIZE + 1)
                   /\ issued[r].batch <= Effective \div CHUNK_SIZE
                        => issued[r].batch = (issued[r].page - 1) \div CHUNK_MULTIPLIER + 1
             /\ \A b \in 1..(Effective \div CHUNK_SIZE) :
                   Cardinality(BatchIds(b)) \in {0, CHUNK_MULTIPLIER}
             /\ Cardinality(BatchIds(Effective \div CHUNK_SIZE + 1))
                   \in {0, CeilDiv(Effective % CHUNK_SIZE, API_MAX_LIMIT)}
    /\ (Returned /\ result.kind = "Ok" /\ Effective > API_MAX_LIMIT)
          => /\ \A b \in 1..(Effective \div CHUNK_SIZE) :
                   Cardinality(BatchIds(b)) = CHUNK_MULTIPLIER
             /\ Cardinality(BatchIds(Effective \div CHUNK_SIZE + 1))
                   = CeilDiv(Effective % CHUNK_SIZE, API_MAX_LIMIT)
    /\ (Returned /\ result.kind = "Ok" /\ Effective = 12000)
          => /\ Len(issued) - 1 = 12
             /\ { issued[r].page : r \in BatchIds(1) \cup BatchIds(2) } = 1..10
             /\ { issued[r].page : r \in BatchIds(3) } = 11..12

(* A multiple of 5000: one full batch and no remainder request. *)
C14_Witness ==
    /\ Returned
    /\ result.kind = "Ok"
    /\ Effective = CHUNK_SIZE
    /\ Cardinality(BatchIds(1)) = CHUNK_MULTIPLIER
    /\ BatchIds(2) = {}

(* C15: at most 5 fetches are ever in flight, and exactly 1 while the      *)
(* probe or the single-page fetch is in flight.                            *)
C15_BoundedConcurrency ==
    /\ Cardinality(InFlight) <= CHUNK_MULTIPLIER
    /\ (pc \in {"probe", "single"} /\ InFlight # {}) => Cardinality(InFlight) = 1
    /\ pc \in {"probe", "single"} => Len(all_fetches) = 1

(* A full batch with its five fetches all in flight. *)
C15_Witness ==
    /\ pc = "chunk"
    /\ Cardinality(InFlight) = CHUNK_MULTIPLIER

(* C16: the probe, a request for one item, is issued exactly once and has  *)
(* completed before any page fetch is started; its items are not part of   *)
(* the output.                                                             *)
C16_ProbeOnceAndFirst ==
    /\ pc # "start" => /\ Cardinality(BatchIds(0)) = 1
                       /\ issued[1].batch = 0
                       /\ issued[1].limit = 1
                       /\ issued[1].page = NoPage
    /\ Len(issued) >= 2 => responses[1].kind = "Ok"
    /\ TLen(all_tracks) <= TLen(FetchedFrom(2))
    /\ (Returned /\ result.kind = "Ok")
          => /\ TLen(all_tracks) = TLen(FetchedFrom(2))
             /\ result.tracks = Take(all_tracks, Effective)

(* The probe carried one track and the page fetch none (page size 0). *)
C16_Witness ==
    /\ Returned
    /\ result.kind = "Ok"
    /\ responses[1].tracks # <<>>
    /\ all_tracks = <<>>

(* C18: the value returned depends on the outcomes of the requests only,   *)
(* not on the order of completion: a failed probe gives its error, a       *)
(* failed batch the error of its failed request of smallest page index,    *)
(* and no failure the fetched tracks in request order, cut to the          *)
(* effective limit.                                                        *)
C18_OutcomeIgnoresTiming ==
    Returned =>
        result = IF \E r \in 1..Len(issued) : Failed(r)
                 THEN [kind |-> "Err",
                       req  |-> CHOOSE r \in 1..Len(issued) :
                                   /\ Failed(r)
                                   /\ \A q \in 1..Len(issued) : Failed(q) => r <= q]
                 ELSE [kind |-> "Ok", tracks |-> Take(FetchedFrom(2), Effective)]

(* In a full batch the last request failed first, and the first request    *)
(* failed last: the error returned is the first request's.                 *)
C18_Witness ==
    /\ Returned
    /\ result.kind = "Err"
    /\ Len(completionOrder) = CHUNK_MULTIPLIER
    /\ completionOrder[1] = all_fetches[CHUNK_MULTIPLIER]
    /\ Failed(completionOrder[1])
    /\ completionOrder[CHUNK_MULTIPLIER] = all_fetches[1]
    /\ result.req = all_fetches[1]

----
(* Properties of the call against a remote whose tracks change, and of its *)
(* query parameters and termination.                                       *)

(* The limit asked for, with the default of line 54. *)
Requested == UnwrapOr(limit, API_MAX_LIMIT)

C17_BaseOptionsUntouched ==
    /\ base_options = NewBaseOptions
    /\ Len(sent) = Len(issued)
    /\ \A r \in 1..Len(sent) :
          /\ DOMAIN sent[r] = DOMAIN NewBaseOptions \cup {"method"}
                                \cup (IF issued[r].page = NoPage THEN {} ELSE {"page"})
          /\ \A k \in {"api_key", "format", "user"} : sent[r][k] = NewBaseOptions[k]
          /\ sent[r]["method"] = method
          /\ sent[r]["limit"] = ToString(issued[r].limit)
          /\ issued[r].page # NoPage => sent[r]["page"] = ToString(issued[r].page)
    /\ \A q, r \in 1..Len(sent) :
          (q # r /\ "page" \in DOMAIN sent[q] /\ "page" \in DOMAIN sent[r])
              => sent[q]["page"] # sent[r]["page"]

(* Twelve page requests sent, page 12 last, and base_options as built. *)
C17_Witness ==
    /\ Len(sent) = 13
    /\ sent[13]["page"] = <<1, 2>>
    /\ sent[13]["limit"] = <<1, 0, 0, 0>>
    /\ sent[2]["page"] = <<1>>
    /\ base_options["limit"] = <<1, 0, 0, 0>>
    /\ "page" \notin DOMAIN base_options

C20_EventuallyReturns == <>(pc = "done")

(* A call that went through two full batches and the remainder. *)
C20_Witness ==
    /\ Returned
    /\ needed_chunks = 2
    /\ i = 2
    /\ Len(all_fetches) = 2
    /\ InFlight = {}

====
